---- MODULE Spec2Model ----
(***************************************************************************)
(* brainstorm/architecture.py: validation of an architecture description,  *)
(* its canonical layer order, the extended description with the reverse    *)
(* edges, and the instantiation of the layers in that order.               *)
(*                                                                         *)
(* A description is a function from layer names to records                 *)
(* [type, sink_layers]; `type` stands for the '@type' entry.  The 'size'   *)
(* entry and the free-form keyword entries are handed through to the layer *)
(* constructor untouched and are not part of the state.                    *)
(***************************************************************************)
EXTENDS Integers, Sequences, FiniteSets, TLC

VARIABLES
    architecture,            \* the description passed by the caller
    pc,                      \* position of the call
    call,                    \* entry point the caller used
    layer_order,             \* get_canonical_layer_order: layer_order
    already_ordered_layers,  \* get_canonical_layer_order: already_ordered_layers
    canonical,               \* list returned by get_canonical_layer_order
    remaining_layers,        \* set named by the failed assertion of line 95
    error,                   \* exception that ended the call, or "none"
    ext_keys,                \* key order of the OrderedDict extended_architecture
    extended_architecture,   \* its records: name -> [type, sink_layers, source_layers]
    idx,                     \* position of the running for loop
    layers,                  \* instantiate: name -> [in_size, out_size]
    layer_keys,              \* key order of the OrderedDict layers
    lookups                  \* calls of get_layer_class_from_typename so far

vars == <<architecture, pc, call, layer_order, already_ordered_layers, canonical,
          remaining_layers, error, ext_keys, extended_architecture, idx,
          layers, layer_keys, lookups>>

(***************************************************************************)
(* Bounds of the model.                                                    *)
(***************************************************************************)
MaxLayers == 3      \* layers of a description, specification Spec
MaxSinks == 2       \* names in one sink_layers set
VMaxLayers == 2     \* layers of a description, specification ValidateSpec

GraphNames == {"InputLayer", "In", "Out", "h1"}
ValidateNames == {"InputLayer", "Out", "default", "2h"}
NoType == "<no @type>"                 \* the record has no '@type' entry
Types == {"InputLayer", "FooLayer"}
OutSizes == {1, 2}                     \* out_size of a constructed layer

(***************************************************************************)
(* Strings.  Python compares unicode strings code point by code point.     *)
(***************************************************************************)
Codes(name) ==
    CASE name = "InputLayer" -> <<73, 110, 112, 117, 116, 76, 97, 121, 101, 114>>
      [] name = "In"         -> <<73, 110>>
      [] name = "Out"        -> <<79, 117, 116>>
      [] name = "h1"         -> <<104, 49>>
      [] name = "default"    -> <<100, 101, 102, 97, 117, 108, 116>>
      [] name = "2h"         -> <<50, 104>>

RECURSIVE SeqLess(_, _)
SeqLess(a, b) ==
    IF b = <<>> THEN FALSE
    ELSE IF a = <<>> THEN TRUE
    ELSE IF Head(a) # Head(b) THEN Head(a) < Head(b)
    ELSE SeqLess(Tail(a), Tail(b))

StrLess(a, b) == SeqLess(Codes(a), Codes(b))

IsLetter(c) == (c >= 65 /\ c <= 90) \/ (c >= 97 /\ c <= 122) \/ c = 95
IsDigit(c) == c >= 48 /\ c <= 57

\* PYTHON_IDENTIFIER.match(name): [A-Za-z_][A-Za-z0-9_]*
PYTHON_IDENTIFIER(name) ==
    LET cs == Codes(name) IN
    /\ Len(cs) >= 1
    /\ IsLetter(cs[1])
    /\ \A k \in 2..Len(cs) : IsLetter(cs[k]) \/ IsDigit(cs[k])

(***************************************************************************)
(* Sequences.                                                              *)
(***************************************************************************)
Range(s) == {s[k] : k \in 1..Len(s)}

Orderings(S) ==
    {f \in [1..Cardinality(S) -> S] : \A a, b \in 1..Cardinality(S) : f[a] = f[b] => a = b}

NotReversed(s) == s
\* list(reversed(layer_order))
Reversed(s) == [k \in 1..Len(s) |-> s[Len(s) + 1 - k]]

Greatest(S) == CHOOSE x \in S : \A y \in S : y = x \/ StrLess(y, x)

RECURSIVE DescendingOf(_)
DescendingOf(S) ==
    IF S = {} THEN <<>> ELSE <<Greatest(S)>> \o DescendingOf(S \ {Greatest(S)})

SortedUnchanged(s) == s
\* sorted(new_layers, reverse=True)
SortedReverse(s) == DescendingOf(Range(s))

(***************************************************************************)
(* validate_architecture                                                   *)
(***************************************************************************)
Keys(arch) == DOMAIN arch

SchemaOk(arch) == \A name \in Keys(arch) : arch[name].type # NoType

NoDefaultAllowed(arch) == TRUE
NoDefault(arch) == "default" \notin Keys(arch)

NamesOk(arch) == \A name \in Keys(arch) : PYTHON_IDENTIFIER(name)

SinksPresent(arch) ==
    \A name \in Keys(arch) : \A sink_name \in arch[name].sink_layers : sink_name \in Keys(arch)

HasInputLayer(arch) ==
    /\ "InputLayer" \in Keys(arch)
    /\ arch["InputLayer"].type = "InputLayer"

OneInputLayer(arch) ==
    Cardinality({name \in Keys(arch) : arch[name].type = "InputLayer"}) = 1

NoInputSources(arch) ==
    Cardinality({name \in Keys(arch) : "InputLayer" \in arch[name].sink_layers}) = 0

OneOutput(arch) ==
    Cardinality({name \in Keys(arch) : arch[name].sink_layers = {}}) = 1

ValidArchitecture(arch) ==
    /\ SchemaOk(arch)
    /\ NoDefault(arch)
    /\ NamesOk(arch)
    /\ SinksPresent(arch)
    /\ HasInputLayer(arch)
    /\ OneInputLayer(arch)
    /\ NoInputSources(arch)
    /\ OneOutput(arch)

(***************************************************************************)
(* Initial states: the call has not started.                               *)
(***************************************************************************)
SinkSets(names) == {s \in SUBSET names : Cardinality(s) <= MaxSinks}

Descriptions(names, types, n) ==
    UNION {[K -> [type : types, sink_layers : SinkSets(names)]] :
           K \in {k \in SUBSET names : Cardinality(k) <= n}}

Idle ==
    /\ pc = "idle"
    /\ call = "none"
    /\ layer_order = <<>>
    /\ already_ordered_layers = {}
    /\ canonical = <<>>
    /\ remaining_layers = {}
    /\ error = "none"
    /\ ext_keys = <<>>
    /\ extended_architecture = <<>>
    /\ idx = 0
    /\ layers = <<>>
    /\ layer_keys = <<>>
    /\ lookups = 0

Init ==
    /\ architecture \in Descriptions(GraphNames, Types, MaxLayers)
    /\ Idle

InitValidate ==
    /\ architecture \in Descriptions(ValidateNames, Types \cup {NoType}, VMaxLayers)
    /\ Idle

(***************************************************************************)
(* get_extended_architecture, line 100: validate first.                    *)
(***************************************************************************)
validate_architecture ==
    /\ pc = "idle"
    /\ call' = "instantiate_layers_from_architecture"
    /\ IF ValidArchitecture(architecture)
       THEN /\ pc' = "validated"
            /\ error' = error
       ELSE /\ pc' = "failed"
            /\ error' = "InvalidArchitectureError"
    /\ UNCHANGED <<architecture, layer_order, already_ordered_layers, canonical,
                   remaining_layers, ext_keys, extended_architecture, idx,
                   layers, layer_keys, lookups>>

(***************************************************************************)
(* get_canonical_layer_order, called by the caller itself (pc = "idle") or *)
(* by get_extended_architecture after the validation.                      *)
(***************************************************************************)
get_canonical_layer_order ==
    /\ pc \in {"idle", "validated"}
    /\ call' = IF pc = "idle" THEN "get_canonical_layer_order" ELSE call
    /\ layer_order' = <<>>
    /\ already_ordered_layers' = {}
    /\ pc' = "loop"
    /\ UNCHANGED <<architecture, canonical, remaining_layers, error, ext_keys,
                   extended_architecture, idx, layers, layer_keys, lookups>>

NewLayersProperSubset(arch, ordered) ==
    {n \in Keys(arch) \ ordered :
       arch[n].sink_layers \subseteq ordered /\ arch[n].sink_layers # ordered}
\* lines 82-86: the layers not ordered yet whose sinks are all ordered
NewLayers(arch, ordered) ==
    {n \in Keys(arch) \ ordered : arch[n].sink_layers \subseteq ordered}

NoneRemaining(arch, ordered) == {}
\* line 93
Remaining(arch, ordered) == Keys(arch) \ ordered

(***************************************************************************)
(* One round of the while loop, lines 81-91, and on the break lines 93-96. *)
(* new_layers lists the selected layers in the order in which              *)
(* architecture.keys() iterates, which is any order.                       *)
(***************************************************************************)
OrderLoop ==
    /\ pc = "loop"
    /\ \E new_layers \in Orderings(NewLayers(architecture, already_ordered_layers)) :
         IF new_layers # <<>>
         THEN /\ layer_order' = layer_order \o SortedReverse(new_layers)
              /\ already_ordered_layers' = Range(layer_order')
              /\ pc' = pc
              /\ UNCHANGED <<canonical, remaining_layers, error>>
         ELSE /\ UNCHANGED <<layer_order, already_ordered_layers>>
              /\ IF Remaining(architecture, already_ordered_layers) # {}
                 THEN /\ pc' = "failed"
                      /\ error' = "AssertionError"
                      /\ remaining_layers' =
                           Remaining(architecture, already_ordered_layers)
                      /\ canonical' = canonical
                 ELSE /\ pc' = "ordered"
                      /\ canonical' = Reversed(layer_order)
                      /\ UNCHANGED <<error, remaining_layers>>
    /\ UNCHANGED <<architecture, call, ext_keys, extended_architecture, idx,
                   layers, layer_keys, lookups>>

(***************************************************************************)
(* get_extended_architecture, lines 101-115: one record per layer, in the  *)
(* order of layer_order, with a copy of sink_layers and no source yet.     *)
(***************************************************************************)
ExtendedRecord(layer) ==
    [type |-> layer.type, sink_layers |-> layer.sink_layers, source_layers |-> <<>>]

ExtendBuild ==
    /\ pc = "ordered"
    /\ call = "instantiate_layers_from_architecture"
    /\ ext_keys' = canonical
    /\ extended_architecture' =
         [name \in Range(canonical) |-> ExtendedRecord(architecture[name])]
    /\ idx' = 1
    /\ pc' = IF canonical = <<>> THEN "extended" ELSE "connect"
    /\ UNCHANGED <<architecture, call, layer_order, already_ordered_layers, canonical,
                   remaining_layers, error, layers, layer_keys, lookups>>

(***************************************************************************)
(* get_extended_architecture, lines 117-119: one round of the outer loop.  *)
(* The targets of one layer are distinct records, so the order in which    *)
(* the set sink_layers iterates does not show.                             *)
(***************************************************************************)
AllButOneTarget(l) ==
    IF l.sink_layers = {} THEN {} ELSE l.sink_layers \ {Greatest(l.sink_layers)}
\* line 118
Targets(l) == l.sink_layers

PrependSource(source_layers, n) == <<n>> \o source_layers
\* line 119
AddSource(source_layers, n) == Append(source_layers, n)

ExtendConnect ==
    /\ pc = "connect"
    /\ LET n == ext_keys[idx]
           targets == Targets(extended_architecture[n])
       IN  IF targets \subseteq DOMAIN extended_architecture
           THEN /\ extended_architecture' =
                     [m \in DOMAIN extended_architecture |->
                        IF m \in targets
                        THEN [extended_architecture[m] EXCEPT
                                !.source_layers = AddSource(@, n)]
                        ELSE extended_architecture[m]]
                /\ IF idx = Len(ext_keys)
                   THEN pc' = "extended" /\ idx' = 1
                   ELSE pc' = pc /\ idx' = idx + 1
                /\ error' = error
           ELSE /\ pc' = "failed"
                /\ error' = "KeyError"
                /\ UNCHANGED <<extended_architecture, idx>>
    /\ UNCHANGED <<architecture, call, layer_order, already_ordered_layers, canonical,
                   remaining_layers, ext_keys, layers, layer_keys, lookups>>

(***************************************************************************)
(* instantiate_layers_from_architecture, lines 126-132: one layer.  The    *)
(* layer classes are not part of this file; a constructed layer is its     *)
(* in_size and an out_size of its own choosing.                            *)
(***************************************************************************)
RECURSIVE SumOutSize(_, _)
SumOutSize(insts, names) ==
    IF names = <<>> THEN 0
    ELSE insts[Head(names)].out_size + SumOutSize(insts, Tail(names))

FirstSourceOnly(insts, source_layers) ==
    IF source_layers = <<>> THEN 0 ELSE insts[Head(source_layers)].out_size
\* lines 129-130
InSize(insts, source_layers) == SumOutSize(insts, source_layers)

Instantiate ==
    /\ pc = "extended"
    /\ LET layer_name == ext_keys[idx]
           layer == extended_architecture[layer_name]
       IN  /\ lookups' = lookups + 1
           /\ IF Range(layer.source_layers) \subseteq DOMAIN layers
              THEN /\ \E out_size \in OutSizes :
                        layers' = (layer_name :>
                                     [in_size |-> InSize(layers, layer.source_layers),
                                      out_size |-> out_size]) @@ layers
                   /\ layer_keys' = IF layer_name \in DOMAIN layers
                                    THEN layer_keys
                                    ELSE Append(layer_keys, layer_name)
                   /\ IF idx = Len(ext_keys)
                      THEN pc' = "done" /\ idx' = idx
                      ELSE pc' = pc /\ idx' = idx + 1
                   /\ error' = error
              ELSE /\ pc' = "failed"
                   /\ error' = "KeyError"
                   /\ UNCHANGED <<layers, layer_keys, idx>>
    /\ UNCHANGED <<architecture, call, layer_order, already_ordered_layers, canonical,
                   remaining_layers, ext_keys, extended_architecture>>

Next ==
    \/ validate_architecture
    \/ get_canonical_layer_order
    \/ OrderLoop
    \/ ExtendBuild
    \/ ExtendConnect
    \/ Instantiate

Spec == Init /\ [][Next]_vars

ValidateSpec == InitValidate /\ [][Next]_vars

(***************************************************************************)
(* Graph notions used by the properties below.                             *)
(***************************************************************************)
Returned == {"ordered", "connect", "extended", "done"}

IsPermutationOf(s, S) ==
    /\ Range(s) = S
    /\ Len(s) = Cardinality(S)

Pos(s, x) == CHOOSE k \in 1..Len(s) : s[k] = x

Max(S) == CHOOSE x \in S : \A y \in S : y <= x

SinksOf(arch, n) == arch[n].sink_layers \cap Keys(arch)

SourcesOf(arch, n) == {y \in Keys(arch) : n \in arch[y].sink_layers}

RECURSIVE Closure(_, _)
Closure(arch, S) ==
    LET T == S \cup UNION {SinksOf(arch, m) : m \in S}
    IN  IF T = S THEN S ELSE Closure(arch, T)

\* the layers reached from n along one or more edges
ReachPlus(arch, n) == Closure(arch, SinksOf(arch, n))

HasCycle(arch) == \E n \in Keys(arch) : n \in ReachPlus(arch, n)

\* some layer is not reached from InputLayer, or reaches no layer without sinks
HasUnconnected(arch) ==
    \E n \in Keys(arch) :
      \/ /\ n # "InputLayer"
         /\ ("InputLayer" \notin Keys(arch) \/ n \notin ReachPlus(arch, "InputLayer"))
      \/ /\ arch[n].sink_layers # {}
         /\ \A m \in ReachPlus(arch, n) : arch[m].sink_layers # {}

\* length of the longest path from n to a layer without sinks (acyclic descriptions)
RECURSIVE Depth(_, _)
Depth(arch, n) ==
    IF arch[n].sink_layers = {} THEN 0
    ELSE 1 + Max({Depth(arch, m) : m \in arch[n].sink_layers})

RECURSIVE SumOver(_, _)
SumOver(insts, S) ==
    IF S = {} THEN 0
    ELSE LET x == CHOOSE y \in S : TRUE
         IN  insts[x].out_size + SumOver(insts, S \ {x})

Validated == call = "instantiate_layers_from_architecture"
Accepted == Validated /\ error # "InvalidArchitectureError"

(***************************************************************************)
(* C1 as stated: validate_architecture accepts a description if and only   *)
(* if every sink name is a key, no layer is named 'default', there is a    *)
(* layer named 'InputLayer' of type 'InputLayer' and no other layer of     *)
(* that type, no layer lists 'InputLayer' as a sink, and exactly one layer *)
(* has no sinks.  Violated: a record without '@type' or a name that is no  *)
(* identifier is rejected although all of these hold.                      *)
(***************************************************************************)
C1_Listed(arch) ==
    /\ \A n \in DOMAIN arch : arch[n].sink_layers \subseteq DOMAIN arch
    /\ "default" \notin DOMAIN arch
    /\ "InputLayer" \in DOMAIN arch
    /\ \A n \in DOMAIN arch : arch[n].type = "InputLayer" <=> n = "InputLayer"
    /\ \A n \in DOMAIN arch : "InputLayer" \notin arch[n].sink_layers
    /\ \E n \in DOMAIN arch :
         \A m \in DOMAIN arch : arch[m].sink_layers = {} <=> m = n

C1_Original == Validated => (Accepted <=> C1_Listed(architecture))

(***************************************************************************)
(* C1 amended: validate_architecture accepts a description if and only if  *)
(* the listed conditions hold and, in addition, every record has a '@type' *)
(* and every layer name matches the identifier pattern; in every other     *)
(* case the call ends with InvalidArchitectureError.                       *)
(***************************************************************************)
C1_Amended ==
    Validated =>
      /\ Accepted <=>
           /\ C1_Listed(architecture)
           /\ \A n \in DOMAIN architecture : architecture[n].type # NoType
           /\ \A n \in DOMAIN architecture : PYTHON_IDENTIFIER(n)
      /\ ~Accepted => pc = "failed"

C1_Witness ==
    /\ Accepted
    /\ Cardinality(DOMAIN architecture) = 2
    /\ pc = "validated"

(***************************************************************************)
(* C2 as stated: for every description that validate_architecture accepts, *)
(* get_canonical_layer_order returns a permutation of all layer names.     *)
(* Violated: an accepted description with a cycle ends in the assertion    *)
(* of line 95.                                                             *)
(***************************************************************************)
OrderEnded == pc \in Returned \/ error = "AssertionError"

C2_Original ==
    (OrderEnded /\ ValidArchitecture(architecture)) =>
      /\ pc \in Returned
      /\ IsPermutationOf(canonical, Keys(architecture))

(***************************************************************************)
(* C2 amended: for every accepted description without a cycle,             *)
(* get_canonical_layer_order returns a permutation of all layer names; for *)
(* an accepted description with a cycle it returns nothing and fails the   *)
(* assertion of line 95.                                                   *)
(***************************************************************************)
C2_Amended ==
    (OrderEnded /\ ValidArchitecture(architecture)) =>
      IF HasCycle(architecture)
      THEN /\ pc = "failed"
           /\ error = "AssertionError"
           /\ canonical = <<>>
      ELSE /\ pc \in Returned
           /\ IsPermutationOf(canonical, Keys(architecture))

C2_Witness ==
    /\ pc = "ordered"
    /\ ValidArchitecture(architecture)
    /\ ~HasCycle(architecture)
    /\ Len(canonical) = 3
    /\ call = "get_canonical_layer_order"

(***************************************************************************)
(* C3 as stated: for every accepted description on which an order is       *)
(* returned, the first element is 'InputLayer' and the last element is the *)
(* layer without sinks.  Violated: a layer that InputLayer does not reach  *)
(* can come first.                                                         *)
(***************************************************************************)
C3_Claim ==
    (pc \in Returned /\ ValidArchitecture(architecture)) =>
      /\ canonical[1] = "InputLayer"
      /\ architecture[canonical[Len(canonical)]].sink_layers = {}

(***************************************************************************)
(* C4: for every accepted description, in the returned order every sink of *)
(* every layer stands strictly after that layer.                           *)
(***************************************************************************)
C4_SinksLater ==
    (pc \in Returned /\ ValidArchitecture(architecture)) =>
      \A L \in Keys(architecture) : \A S \in architecture[L].sink_layers :
        /\ L \in Range(canonical)
        /\ S \in Range(canonical)
        /\ Pos(canonical, L) < Pos(canonical, S)

C4_Witness ==
    /\ ValidArchitecture(architecture)
    /\ pc = "ordered"
    /\ Len(canonical) = 3
    /\ \E L \in Keys(architecture) : Cardinality(architecture[L].sink_layers) = 2

(***************************************************************************)
(* C5: the returned order is a function of the description alone, whatever *)
(* the iteration order of the keys: the layers by decreasing topological   *)
(* depth (counted from the output), the layers of one depth by ascending   *)
(* name.                                                                   *)
(***************************************************************************)
C5_Deterministic ==
    pc \in Returned =>
      LET depth == [n \in Keys(architecture) |-> Depth(architecture, n)] IN
      /\ IsPermutationOf(canonical, Keys(architecture))
      /\ \A a, b \in 1..Len(canonical) :
           a < b =>
             \/ depth[canonical[a]] > depth[canonical[b]]
             \/ /\ depth[canonical[a]] = depth[canonical[b]]
                /\ StrLess(canonical[a], canonical[b])

C5_Witness ==
    /\ pc = "ordered"
    /\ Len(canonical) = 3
    /\ \E a, b \in Keys(architecture) :
         /\ a # b
         /\ architecture[a].sink_layers # {}
         /\ Depth(architecture, a) = Depth(architecture, b)

(***************************************************************************)
(* C6: in the extended description, source_layers of X contains Y if and   *)
(* only if sink_layers of Y contains X, and contains Y at most once.       *)
(***************************************************************************)
C6_RoundTrip ==
    pc \in {"extended", "done"} =>
      /\ DOMAIN extended_architecture = Keys(architecture)
      /\ \A X, Y \in Keys(architecture) :
           LET src == extended_architecture[X].source_layers IN
           /\ Y \in Range(src) <=> X \in architecture[Y].sink_layers
           /\ Y \in Range(src) <=> X \in extended_architecture[Y].sink_layers
           /\ Cardinality({k \in 1..Len(src) : src[k] = Y}) <= 1

C6_Witness ==
    /\ pc = "extended"
    /\ \E Y \in Keys(architecture) :
         /\ Cardinality(architecture[Y].sink_layers) = 2
         /\ \A X \in architecture[Y].sink_layers :
              Y \in Range(extended_architecture[X].source_layers)

(***************************************************************************)
(* C7: the extended description iterates its layers in the canonical       *)
(* order, and every source_layers list names the predecessors in the order *)
(* in which they stand in the canonical order.                             *)
(***************************************************************************)
C7_CanonicalOrder ==
    pc \in {"extended", "done"} =>
      /\ ext_keys = canonical
      /\ IsPermutationOf(ext_keys, DOMAIN extended_architecture)
      /\ \A X \in DOMAIN extended_architecture :
           LET src == extended_architecture[X].source_layers IN
           \A a, b \in 1..Len(src) :
             a < b => Pos(canonical, src[a]) < Pos(canonical, src[b])

C7_Witness ==
    /\ pc = "extended"
    /\ \E X \in DOMAIN extended_architecture :
         Len(extended_architecture[X].source_layers) = 2

(***************************************************************************)
(* C8: a layer is never constructed before all its source layers; each     *)
(* layer is constructed once, with in_size the sum of out_size over its    *)
(* source layers (0 for InputLayer); the returned mapping has an instance  *)
(* for every layer name.                                                   *)
(***************************************************************************)
C8_Instantiation ==
    /\ error # "KeyError"
    /\ lookups = Len(layer_keys)
    /\ IsPermutationOf(layer_keys, DOMAIN layers)
    /\ \A k \in 1..Len(layer_keys) :
         LET n == layer_keys[k] IN
         /\ SourcesOf(architecture, n) \subseteq {layer_keys[m] : m \in 1..(k - 1)}
         /\ layers[n].in_size = SumOver(layers, SourcesOf(architecture, n))
    /\ "InputLayer" \in DOMAIN layers => layers["InputLayer"].in_size = 0
    /\ pc = "done" => DOMAIN layers = Keys(architecture)

C8_Witness ==
    /\ pc = "done"
    /\ Len(layer_keys) = 3
    /\ \E n \in DOMAIN layers :
         /\ Cardinality(SourcesOf(architecture, n)) = 2
         /\ layers[n].in_size = 3

(***************************************************************************)
(* C9 as stated, for the descriptions that validate_architecture accepts:  *)
(* get_canonical_layer_order rejects every description that contains a     *)
(* cycle and every description that contains a layer disconnected from     *)
(* InputLayer or from the output layer.  Violated: an accepted acyclic     *)
(* description is ordered although InputLayer does not reach every layer.  *)
(***************************************************************************)
C9_Claim ==
    (pc \in Returned /\ ValidArchitecture(architecture)) =>
      /\ ~HasCycle(architecture)
      /\ ~HasUnconnected(architecture)

(***************************************************************************)
(* C10: when validate_architecture or get_canonical_layer_order fails on   *)
(* the description, no extended description is built, no layer class is    *)
(* resolved, no layer is constructed and nothing is returned; and no step  *)
(* changes the caller's description.                                       *)
(***************************************************************************)
UpstreamFails(arch) ==
    \/ ~ValidArchitecture(arch)
    \/ HasCycle(arch)
    \/ \E n \in Keys(arch) : ~(arch[n].sink_layers \subseteq Keys(arch))

NothingBuilt ==
    /\ ext_keys = <<>>
    /\ extended_architecture = <<>>
    /\ layers = <<>>
    /\ layer_keys = <<>>
    /\ lookups = 0
    /\ pc \notin {"connect", "extended", "done"}

C10_AllOrNothing ==
    /\ [](Validated /\ UpstreamFails(architecture) => NothingBuilt)
    /\ [][architecture' = architecture]_vars

C10_Witness ==
    /\ Validated
    /\ ValidArchitecture(architecture)
    /\ error = "AssertionError"
    /\ remaining_layers # {}

====
